---- MODULE Spec2Model ----
(***************************************************************************)
(* A model of the corpus tooling of articles_parsing:                      *)
(*   - pipeline.py: validate_dataset, CorpusManager, TextProcessingPipeline*)
(*   - pos_frequency_pipeline.py: POSFrequencyPipeline                     *)
(*   - scrapper.py: validate_config                                        *)
(* Text is a sequence of one-character strings; a file name is text too.   *)
(* The assets directory is three maps from file names to contents: text    *)
(* files, metadata (JSON) files and images.                                *)
(***************************************************************************)
EXTENDS Integers, Sequences, FiniteSets, TLC

VARIABLES
    assets,     \* what ASSETS_PATH is: "missing", "file" or "dir"
    files,      \* text files of the directory: name -> text
    metas,      \* JSON files of the directory: name -> [fmt, members]
    images,     \* image files of the directory: name -> frequency mapping drawn
    pc,         \* position of the running entry point
    entry,      \* which entry point runs: "none", "text", "pos"
    storage,    \* CorpusManager._storage: article id -> Article
    todo,       \* the articles the run() loop still has to visit, in dict order
    error,      \* the exception that ended the run, "none" if none
    printed,    \* the lines the process has written to stdout
    config,     \* the crawler configuration file, as parsed JSON
    cfgResult   \* outcome of validate_config: [kind, ...]

vars == <<assets, files, metas, images, pc, entry, storage, todo, error, printed,
          config, cfgResult>>

----------------------------------------------------------------------------
(* Bounds of the model *)

\* largest article number a file name of the wide directories carries
MaxId == 3
\* largest number of entries of the wide directories
MaxFiles == 3
\* number of articles of the pipeline runs
MaxArticles == 2
\* longest raw text of the text-processing runs
MaxRawLen == 4
\* longest tagged artifact of the frequency runs
MaxTagLen == 6
\* longest seed list of a configuration
MaxSeeds == 2

----------------------------------------------------------------------------
(* Text *)

Digits == {"0", "1", "2", "3", "4", "5", "6", "7", "8", "9"}

Upper == {"A", "B", "N", "S", "V"}

DigitVal(c) ==
    CASE c = "0" -> 0 [] c = "1" -> 1 [] c = "2" -> 2 [] c = "3" -> 3
      [] c = "4" -> 4 [] c = "5" -> 5 [] c = "6" -> 6 [] c = "7" -> 7
      [] c = "8" -> 8 [] c = "9" -> 9

DigitChar(d) ==
    CASE d = 0 -> "0" [] d = 1 -> "1" [] d = 2 -> "2" [] d = 3 -> "3"
      [] d = 4 -> "4" [] d = 5 -> "5" [] d = 6 -> "6" [] d = 7 -> "7"
      [] d = 8 -> "8" [] d = 9 -> "9"

\* str(n) for 0 <= n <= 99
IntToStr(n) == IF n < 10 THEN <<DigitChar(n)>> ELSE <<DigitChar(n \div 10), DigitChar(n % 10)>>

\* s[from:]
Drop(s, from) == SubSeq(s, from, Len(s))

\* the length of the run of characters of `set` that s starts with
RECURSIVE RunLen(_, _)
RunLen(s, set) ==
    IF s = <<>> \/ Head(s) \notin set THEN 0 ELSE 1 + RunLen(Tail(s), set)

\* int(digits)
RECURSIVE ParseInt(_)
ParseInt(ds) ==
    IF ds = <<>> THEN 0 ELSE 10 * ParseInt(SubSeq(ds, 1, Len(ds) - 1)) + DigitVal(ds[Len(ds)])

\* s.startswith(p), s.endswith(p), p in s
StartsWith(s, p) == Len(p) <= Len(s) /\ SubSeq(s, 1, Len(p)) = p

EndsWith(s, p) == Len(p) <= Len(s) /\ SubSeq(s, Len(s) - Len(p) + 1, Len(s)) = p

Contains(s, p) == \E i \in 1..(Len(s) + 1) : StartsWith(Drop(s, i), p)

\* sep.join(parts)
RECURSIVE Join(_, _)
Join(parts, sep) ==
    IF parts = <<>> THEN <<>>
    ELSE IF Len(parts) = 1 THEN parts[1]
    ELSE parts[1] \o sep \o Join(Tail(parts), sep)

\* the sequences over S of length at most n
SeqUpTo(S, n) == UNION {[1..k -> S] : k \in 0..n}

\* sorted(set(...)) of a set of integers
RECURSIVE Sorted(_)
Sorted(S) ==
    IF S = {} THEN <<>>
    ELSE LET m == CHOOSE x \in S : \A y \in S : x <= y IN <<m>> \o Sorted(S \ {m})

Range(s) == {s[i] : i \in DOMAIN s}

----------------------------------------------------------------------------
(* File names of the assets directory *)

RAW_TXT == <<"_", "r", "a", "w", ".", "t", "x", "t">>

RAW_TXT_NO_UNDERSCORE == <<"r", "a", "w", ".", "t", "x", "t">>

META_JSON == <<"m", "e", "t", "a", ".", "j", "s", "o", "n">>

RawName(id) == IntToStr(id) \o RAW_TXT

MetaName(id) == IntToStr(id) \o <<"_">> \o META_JSON

CleanedName(id) == IntToStr(id) \o <<"_", "c", "l", "e", "a", "n", "e", "d", ".", "t", "x", "t">>

SingleTaggedName(id) ==
    IntToStr(id) \o <<"_", "s", "i", "n", "g", "l", "e", "_", "t", "a", "g", "g", "e", "d", ".", "t", "x", "t">>

MultipleTaggedName(id) ==
    IntToStr(id) \o <<"_", "m", "u", "l", "t", "i", "p", "l", "e", "_", "t", "a", "g", "g", "e", "d", ".", "t", "x", "t">>

ImageName(id) == IntToStr(id) \o <<"_", "i", "m", "a", "g", "e", ".", "p", "n", "g">>

\* names a directory may also hold: a raw text without the underscore, a backup
\* of a raw text, a file with no number
BareRawName(id) == IntToStr(id) \o RAW_TXT_NO_UNDERSCORE

BackupRawName(id) == RawName(id) \o <<".", "b", "a", "k">>

ReadmeName == <<"r", "e", "a", "d", "m", "e", ".", "m", "d">>

DirEntries == DOMAIN files \cup DOMAIN metas \cup DOMAIN images

\* file.stat().st_size
StSize(name) == IF name \in DOMAIN files THEN Len(files[name]) ELSE 1

----------------------------------------------------------------------------
(* pipeline.py: validate_dataset *)

\* one pass of the loop over path.glob('*'); acc.raised: InconsistentDatasetError
ValidateFile(name, acc) ==
    LET digits == RunLen(name, Digits) IN
    IF digits = 0 THEN [acc EXCEPT !.raised = TRUE]
    ELSE LET number == ParseInt(SubSeq(name, 1, digits))
             counted ==
                 [acc EXCEPT
                     !.numeration = Append(@, number),
                     !.number_raw_txt =
                         IF EndsWith(name, RAW_TXT_NO_UNDERSCORE) THEN @ + 1 ELSE @,
                     !.number_meta = IF EndsWith(name, META_JSON) THEN @ + 1 ELSE @]
         IN  IF Contains(name, RAW_TXT) /\ StSize(name) = 0
             THEN [counted EXCEPT !.raised = TRUE]
             ELSE counted

\* the loop over path.glob('*'): the order of the entries is the file system's,
\* and every exit of the loop raises the same error
RECURSIVE ValidateLoop(_, _)
ValidateLoop(rest, acc) ==
    IF rest = {} \/ acc.raised THEN acc
    ELSE LET name == CHOOSE n \in rest : TRUE
         IN  ValidateLoop(rest \ {name}, ValidateFile(name, acc))

\* the loop over sorted_numeration: TRUE when two neighbours differ by other than 1
RECURSIVE HasGap(_, _)
HasGap(sorted_numeration, previous) ==
    IF sorted_numeration = <<>> THEN FALSE
    ELSE IF Head(sorted_numeration) - previous # 1 THEN TRUE
    ELSE HasGap(Tail(sorted_numeration), Head(sorted_numeration))

\* validate_dataset(ASSETS_PATH): "ok" when it returns, else the exception raised
validate_dataset ==
    IF assets = "missing" THEN "FileNotFoundError"
    ELSE IF assets # "dir" THEN "NotADirectoryError"
    ELSE IF DirEntries = {} THEN "EmptyDirectoryError"
    ELSE LET acc == ValidateLoop(DirEntries,
                        [numeration |-> <<>>, number_raw_txt |-> 0, number_meta |-> 0,
                         raised |-> FALSE])
             sorted_numeration == Sorted(Range(acc.numeration))
         IN  IF acc.raised THEN "InconsistentDatasetError"
             ELSE IF sorted_numeration[1] # 1 THEN "InconsistentDatasetError"
             ELSE IF HasGap(sorted_numeration, 0) THEN "InconsistentDatasetError"
             ELSE IF acc.number_raw_txt # acc.number_meta THEN "InconsistentDatasetError"
             ELSE "ok"

ValidatorErrors ==
    {"FileNotFoundError", "NotADirectoryError", "EmptyDirectoryError",
     "InconsistentDatasetError"}

----------------------------------------------------------------------------
(* pipeline.py: CorpusManager *)

\* re.compile(r'\d+').search(name)[0]: the first run of digits of the name
RECURSIVE SearchDigits(_)
SearchDigits(name) ==
    IF name = <<>> THEN <<>>
    ELSE IF Head(name) \in Digits THEN SubSeq(name, 1, RunLen(name, Digits))
    ELSE SearchDigits(Tail(name))

\* Article(url, article_id)
Article(url, article_id) == [url |-> url, article_id |-> article_id]

\* CorpusManager._scan_dataset: _storage once every entry has been visited
scan_dataset ==
    LET ids == {ParseInt(SearchDigits(name)) :
                   name \in {n \in DirEntries : Contains(n, RAW_TXT)}}
    IN  [article_id \in ids |-> Article("None", article_id)]

\* a name with '_raw.txt' and no digit: pattern.search returns None and [0] raises
ScanFails == \E n \in DirEntries : Contains(n, RAW_TXT) /\ SearchDigits(n) = <<>>

\* the orders in which a dict filled in glob order can list the ids
Orders(ids) ==
    {s \in [1..Cardinality(ids) -> ids] : \A i, j \in DOMAIN s : i # j => s[i] # s[j]}

----------------------------------------------------------------------------
(* The entry points: pipeline.main and pos_frequency_pipeline.main *)

\* a main that goes on whatever validate_dataset did
AfterValidation_Unchecked(result) == "construct"

\* where main goes once validate_dataset(ASSETS_PATH) has returned or raised
AfterValidation(result) == IF result = "ok" THEN "construct" ELSE "failed"

\* a process starts: python pipeline.py or python pos_frequency_pipeline.py
Start(which) ==
    /\ pc \in {"idle", "done", "failed"}
    /\ entry' = which
    /\ pc' = "validate"
    /\ storage' = <<>>
    /\ todo' = <<>>
    /\ error' = "none"
    /\ printed' = <<>>
    /\ UNCHANGED <<assets, files, metas, images, config, cfgResult>>

StartText == Start("text")

StartPOS == Start("pos")

\* main: validate_dataset(ASSETS_PATH)
Validate ==
    /\ pc = "validate"
    /\ LET result == validate_dataset IN
        /\ pc' = AfterValidation(result)
        /\ error' = IF result = "ok" THEN "none" ELSE result
    /\ UNCHANGED <<assets, files, metas, images, entry, storage, todo, printed,
                   config, cfgResult>>

\* main: corpus_manager = CorpusManager(ASSETS_PATH), then the pipeline object
Construct ==
    /\ pc = "construct"
    /\ IF ScanFails
       THEN /\ pc' = "failed"
            /\ error' = "TypeError"
            /\ UNCHANGED <<storage, todo>>
       ELSE /\ storage' = scan_dataset
            /\ \E order \in Orders(DOMAIN scan_dataset) : todo' = order
            /\ pc' = "run"
            /\ UNCHANGED error
    /\ UNCHANGED <<assets, files, metas, images, entry, printed, config, cfgResult>>

----------------------------------------------------------------------------
(* The two morphological analysers, as the pipeline sees them.  A word is a  *)
(* run of letters; what the analysers say of a word is fixed by its letters. *)

Letters == {"a", "A", "b", "q", "z"}

Lower(c) == IF c = "A" THEN "a" ELSE c

\* str.lower()
LowerStr(s) == [i \in DOMAIN s |-> Lower(s[i])]

\* Mystem's analysis of a word: "z" words are unknown (an empty analysis), "q"
\* words get an analysis that lacks 'gr' (the word q) or 'lex' (longer ones)
MystemAnalysis(word) ==
    IF "z" \in Range(word) THEN <<>>
    ELSE IF "q" \in Range(word)
    THEN <<[keys |-> IF Len(word) = 1 THEN {"lex"} ELSE {"gr"},
            lex |-> LowerStr(word), gr |-> <<"S">>]>>
    ELSE <<[keys |-> {"lex", "gr"},
            lex |-> LowerStr(word),
            gr |-> IF Head(word) = "A" THEN <<"V">> ELSE <<"S", ",", "m">>]>>

\* Mystem().analyze(text): words carry 'analysis', the text between them does not
RECURSIVE MystemAnalyze(_)
MystemAnalyze(text) ==
    IF text = <<>> THEN <<>>
    ELSE IF Head(text) \in Letters
    THEN LET n == RunLen(text, Letters)
             word == SubSeq(text, 1, n)
         IN  <<[text |-> word, keys |-> {"text", "analysis"},
                analysis |-> MystemAnalysis(word)]>> \o MystemAnalyze(Drop(text, n + 1))
    ELSE LET n == RunLen(text, (Range(text) \ Letters))
         IN  <<[text |-> SubSeq(text, 1, n), keys |-> {"text"}, analysis |-> <<>>]>>
                 \o MystemAnalyze(Drop(text, n + 1))

\* pymorphy2.MorphAnalyzer().parse(word): no parse for the "b" words
MorphParse(word) ==
    IF "b" \in Range(word) THEN <<>>
    ELSE <<[tag |-> IF Head(word) = "A" THEN <<"B">> ELSE <<"N">>]>>

----------------------------------------------------------------------------
(* pipeline.py: MorphologicalToken *)

MorphologicalToken(original_word) ==
    [original_word |-> original_word, normalized_form |-> <<>>,
     tags_mystem |-> <<>>, tags_pymorphy |-> <<>>]

get_cleaned(token) == LowerStr(token.original_word)

\* the lemma with the Mystem tags, as the docstring of get_single_tagged has it
get_single_tagged_Mystem(token) ==
    token.normalized_form \o <<"(">> \o token.tags_mystem \o <<")">>

get_single_tagged(token) ==
    token.normalized_form \o <<"(">> \o token.tags_pymorphy \o <<")">>

get_multiple_tagged(token) ==
    token.normalized_form \o <<"<">> \o token.tags_mystem \o <<">">>
        \o <<"(">> \o token.tags_pymorphy \o <<")">>

----------------------------------------------------------------------------
(* pipeline.py: TextProcessingPipeline *)

\* str.replace(old, new), old not empty
RECURSIVE Replace(_, _, _)
Replace(s, old, new) ==
    IF s = <<>> THEN <<>>
    ELSE IF StartsWith(s, old) THEN new \o Replace(Drop(s, Len(old) + 1), old, new)
    ELSE <<Head(s)>> \o Replace(Tail(s), old, new)

\* the head of _process: raw_text.replace('-\n', '').replace('\n', ' ')
Normalize(raw_text) == Replace(Replace(raw_text, <<"-", "\n">>, <<>>), <<"\n">>, <<" ">>)

\* the first test of the loop of _process: the token is skipped
Skipped(token) ==
    \/ "analysis" \notin token.keys
    \/ token.analysis = <<>>
    \/ "lex" \notin token.analysis[1].keys
    \/ "gr" \notin token.analysis[1].keys

\* the loop of _process over analyzed_text
RECURSIVE ProcessLoop(_, _)
ProcessLoop(analyzed_text, tokens) ==
    IF analyzed_text = <<>> THEN tokens
    ELSE LET token == Head(analyzed_text) IN
         IF Skipped(token) THEN ProcessLoop(Tail(analyzed_text), tokens)
         ELSE LET morph_token ==
                      [MorphologicalToken(token.text) EXCEPT
                          !.normalized_form = token.analysis[1].lex,
                          !.tags_mystem = token.analysis[1].gr]
                  parsed == MorphParse(token.text)
              IN  IF parsed = <<>> THEN ProcessLoop(Tail(analyzed_text), tokens)
                  ELSE ProcessLoop(Tail(analyzed_text),
                           Append(tokens, [morph_token EXCEPT !.tags_pymorphy = parsed[1].tag]))

\* TextProcessingPipeline._process(raw_text)
Process(raw_text) == ProcessLoop(MystemAnalyze(Normalize(raw_text)), <<>>)

\* a run() that fills cleaned_tokens from every analysed token, kept or not
TokenLists_CleanedUnfiltered(raw_text) ==
    LET tokens == Process(raw_text)
        analyzed_text == MystemAnalyze(Normalize(raw_text))
    IN
    [cleaned_tokens |-> [i \in DOMAIN analyzed_text |-> LowerStr(analyzed_text[i].text)],
     single_tagged_tokens |-> [i \in DOMAIN tokens |-> get_single_tagged(tokens[i])],
     multiple_tagged_tokens |-> [i \in DOMAIN tokens |-> get_multiple_tagged(tokens[i])]]

\* the three lists run() fills for one article
TokenLists(raw_text) ==
    LET tokens == Process(raw_text) IN
    [cleaned_tokens |-> [i \in DOMAIN tokens |-> get_cleaned(tokens[i])],
     single_tagged_tokens |-> [i \in DOMAIN tokens |-> get_single_tagged(tokens[i])],
     multiple_tagged_tokens |-> [i \in DOMAIN tokens |-> get_multiple_tagged(tokens[i])]]

\* f @@ (name :> text) for a file map
WriteFile(fs, name, content) ==
    [n \in DOMAIN fs \cup {name} |-> IF n = name THEN content ELSE fs[n]]

\* article.save_as of the three artifacts, in the order of run()
SaveArtifacts(fs, article_id, lists) ==
    WriteFile(
        WriteFile(
            WriteFile(fs, CleanedName(article_id), Join(lists.cleaned_tokens, <<" ">>)),
            SingleTaggedName(article_id), Join(lists.single_tagged_tokens, <<" ">>)),
        MultipleTaggedName(article_id), Join(lists.multiple_tagged_tokens, <<" ">>))

\* the progress line of an article, and the closing line of an entry point
ArticleLine(article) == [line |-> "article", id |-> article.article_id, url |-> article.url]

CompletedLine == [line |-> "completed", id |-> 0, url |-> "None"]

\* one pass of the loop of TextProcessingPipeline.run; the analyser is an external
\* process and may fail (crash), which ends the run with its exception
TextStep ==
    /\ pc = "run"
    /\ entry = "text"
    /\ todo # <<>>
    /\ LET article == storage[Head(todo)] IN
       \E crash \in BOOLEAN :
        IF RawName(article.article_id) \notin DOMAIN files
        THEN /\ pc' = "failed"
             /\ error' = "FileNotFoundError"
             /\ UNCHANGED <<files, todo, printed>>
        ELSE IF crash
        THEN /\ pc' = "failed"
             /\ error' = "AnalyzerError"
             /\ UNCHANGED <<files, todo, printed>>
        ELSE /\ files' = SaveArtifacts(files, article.article_id,
                             TokenLists(files[RawName(article.article_id)]))
             /\ printed' = Append(printed, ArticleLine(article))
             /\ todo' = Tail(todo)
             /\ UNCHANGED <<pc, error>>
    /\ UNCHANGED <<assets, metas, images, entry, storage, config, cfgResult>>

\* the loop of run() is over: main prints its closing line and the process ends
Finish ==
    /\ pc = "run"
    /\ todo = <<>>
    /\ pc' = "done"
    /\ printed' = Append(printed, CompletedLine)
    /\ UNCHANGED <<assets, files, metas, images, entry, storage, todo, error,
                   config, cfgResult>>

----------------------------------------------------------------------------
(* JSON objects: a dict is the sequence of its items, in insertion order; a  *)
(* value is a string or a mapping.  A JSON file is its members and the way   *)
(* they are laid out (fmt): the layout json.dump gives it in run() is "dump".*)

StrValue(text) == [t |-> "str", s |-> text, m |-> <<>>]

MapValue(mapping) == [t |-> "map", s |-> "", m |-> mapping]

Keys(dict) == {dict[i].key : i \in DOMAIN dict}

\* dict[key], key in dict
DictGet(dict, key) == dict[CHOOSE i \in DOMAIN dict : dict[i].key = key].value

\* dict[key] = value: a key the dict has keeps its place, a new key goes last
DictSet(dict, key, value) ==
    IF key \in Keys(dict)
    THEN [i \in DOMAIN dict |->
             IF dict[i].key = key THEN [key |-> key, value |-> value] ELSE dict[i]]
    ELSE Append(dict, [key |-> key, value |-> value])

\* json.load(file): the members of the object, read into a dict one by one
RECURSIVE LoadMembers(_, _)
LoadMembers(members, dict) ==
    IF members = <<>> THEN dict
    ELSE LoadMembers(Tail(members), DictSet(dict, Head(members).key, Head(members).value))

json_load(file) == LoadMembers(file.members, <<>>)

\* json.dump(meta, meta_file, sort_keys=False, indent=4, ensure_ascii=False,
\*           separators=(',', ':'))
json_dump(dict) == [fmt |-> "dump", members |-> dict]

----------------------------------------------------------------------------
(* pos_frequency_pipeline.py: POSFrequencyPipeline *)

\* re.compile(r'<([A-Z]+)').findall(text)
RECURSIVE FindAll(_)
FindAll(text) ==
    IF text = <<>> THEN <<>>
    ELSE LET n == RunLen(Tail(text), Upper) IN
         IF Head(text) = "<" /\ n > 0
         THEN <<SubSeq(Tail(text), 1, n)>> \o FindAll(Drop(text, n + 2))
         ELSE FindAll(Tail(text))

\* a loop body that never increments
CountPos_NoIncrement(pos_freq, pos) == DictSet(pos_freq, pos, 1)

\* the body of the loop over findall
CountPos(pos_freq, pos) ==
    IF pos \notin Keys(pos_freq) THEN DictSet(pos_freq, pos, 1)
    ELSE DictSet(pos_freq, pos, DictGet(pos_freq, pos) + 1)

\* the loop over findall
RECURSIVE CountLoop(_, _)
CountLoop(found, pos_freq) ==
    IF found = <<>> THEN pos_freq
    ELSE CountLoop(Tail(found), CountPos(pos_freq, Head(found)))

\* pos_freq of run() for the text of a multiple_tagged artifact
PosFreq(text) == CountLoop(FindAll(text), <<>>)

\* meta = {'pos_frequencies': pos_freq} in place of the update
MetaUpdate_Replace(meta, pos_freq) == DictSet(<<>>, "pos_frequencies", MapValue(pos_freq))

\* meta.update({'pos_frequencies': pos_freq})
MetaUpdate(meta, pos_freq) == DictSet(meta, "pos_frequencies", MapValue(pos_freq))

\* ASSETS_PATH / article.get_meta_file_path()
MetaPath(article) == MetaName(article.article_id)

\* the multiple_tagged artifact run() opens for an article
ArtifactPath(article) == MultipleTaggedName(article.article_id)

\* a pass without the test of the text
PosOutcome_NoEmptyTest(article) ==
    IF ArtifactPath(article) \notin DOMAIN files THEN "FileNotFoundError"
    ELSE IF MetaPath(article) \notin DOMAIN metas THEN "FileNotFoundError"
    ELSE "ok"

\* how one pass of the loop of run() ends for an article: "ok", or the exception
\* of the first statement that raises
PosOutcome(article) ==
    IF ArtifactPath(article) \notin DOMAIN files THEN "FileNotFoundError"
    ELSE IF files[ArtifactPath(article)] = <<>> THEN "EmptyFileError"
    ELSE IF MetaPath(article) \notin DOMAIN metas THEN "FileNotFoundError"
    ELSE "ok"

\* a pass that tests the text only after it has rewritten the metadata
MetasAfter_TestLate(article, outcome) ==
    IF outcome \in {"ok", "EmptyFileError"} /\ MetaPath(article) \in DOMAIN metas
    THEN WriteFile(metas, MetaPath(article),
             json_dump(MetaUpdate(json_load(metas[MetaPath(article)]),
                                  PosFreq(files[ArtifactPath(article)]))))
    ELSE metas

\* the metadata files once the pass for an article has ended with `outcome`
MetasAfter(article, outcome) ==
    IF outcome = "ok"
    THEN WriteFile(metas, MetaPath(article),
             json_dump(MetaUpdate(json_load(metas[MetaPath(article)]),
                                  PosFreq(files[ArtifactPath(article)]))))
    ELSE metas

\* the images once the pass for an article has ended with `outcome`: visualize
\* draws pos_freq into <id>_image.png
ImagesAfter(article, outcome) ==
    IF outcome = "ok"
    THEN WriteFile(images, ImageName(article.article_id),
             PosFreq(files[ArtifactPath(article)]))
    ELSE images

\* one pass of the loop of POSFrequencyPipeline.run
POSStep ==
    /\ pc = "run"
    /\ entry = "pos"
    /\ todo # <<>>
    /\ LET article == storage[Head(todo)]
           outcome == PosOutcome(article)
       IN  /\ metas' = MetasAfter(article, outcome)
           /\ images' = ImagesAfter(article, outcome)
           /\ IF outcome = "ok"
              THEN /\ printed' = Append(printed, ArticleLine(article))
                   /\ todo' = Tail(todo)
                   /\ UNCHANGED <<pc, error>>
              ELSE /\ pc' = "failed"
                   /\ error' = outcome
                   /\ UNCHANGED <<todo, printed>>
    /\ UNCHANGED <<assets, files, entry, storage, config, cfgResult>>

----------------------------------------------------------------------------
(* scrapper.py: validate_config.  A JSON value is [t, n, l, s]: its type, its *)
(* number, its items, its text; t = "absent" stands for a key the object     *)
(* does not have.                                                            *)

Absent == [t |-> "absent", n |-> 0, l |-> <<>>, s |-> <<>>]

JStr(text) == [t |-> "str", n |-> 0, l |-> <<>>, s |-> text]

JInt(n) == [t |-> "int", n |-> n, l |-> <<>>, s |-> <<>>]

JFloat(n) == [t |-> "float", n |-> n, l |-> <<>>, s |-> <<>>]

JBool(b) == [t |-> "bool", n |-> IF b THEN 1 ELSE 0, l |-> <<>>, s |-> <<>>]

JList(items) == [t |-> "list", n |-> 0, l |-> items, s |-> <<>>]

NoConfig == [seed_urls |-> Absent, total_articles_to_find_and_parse |-> Absent]

NoResult == [kind |-> "none", error |-> "none", seed_urls |-> Absent, max_articles |-> Absent]

Raise(exception) ==
    [kind |-> "raise", error |-> exception, seed_urls |-> Absent, max_articles |-> Absent]

\* constants.URL_PATTERN, the text every seed URL must contain
URL_PATTERN == <<"u">>

\* the ceiling of the number of articles
MaxArticlesCeiling == 300

\* isinstance(value, int): bool is a subclass of int
IsInstanceInt(value) == value.t \in {"int", "bool"}

\* the loop over seed_urls, whose items are strings or numbers: "ok", or the
\* exception it ends with ('in' with a number on its right raises TypeError)
RECURSIVE CheckSeeds(_)
CheckSeeds(seed_urls) ==
    IF seed_urls = <<>> THEN "ok"
    ELSE LET seed_url == Head(seed_urls) IN
         IF seed_url.t # "str" THEN "TypeError"
         ELSE IF ~Contains(seed_url.s, URL_PATTERN) THEN "IncorrectURLError"
         ELSE CheckSeeds(Tail(seed_urls))

\* validate_config(crawler_path) on the configuration scrapper_config
validate_config(scrapper_config) ==
    LET seed_urls == scrapper_config.seed_urls
        max_articles == scrapper_config.total_articles_to_find_and_parse
    IN  IF seed_urls.t = "absent" THEN Raise("KeyError")
        ELSE IF max_articles.t = "absent" THEN Raise("KeyError")
        ELSE IF seed_urls.t # "list" THEN Raise("IncorrectURLError")
        ELSE IF seed_urls.l = <<>> THEN Raise("IncorrectURLError")
        ELSE IF CheckSeeds(seed_urls.l) # "ok" THEN Raise(CheckSeeds(seed_urls.l))
        ELSE IF ~IsInstanceInt(max_articles) \/ max_articles.n <= 0
        THEN Raise("IncorrectNumberOfArticlesError")
        ELSE IF max_articles.n > MaxArticlesCeiling
        THEN Raise("NumberOfArticlesOutOfRangeError")
        ELSE [kind |-> "return", error |-> "none", seed_urls |-> seed_urls,
              max_articles |-> max_articles]

\* the first statement of the scrapper's main block
ValidateConfig ==
    /\ cfgResult.kind = "none"
    /\ cfgResult' = validate_config(config)
    /\ UNCHANGED <<assets, files, metas, images, pc, entry, storage, todo, error,
                   printed, config>>

----------------------------------------------------------------------------
(* The runs of the two entry points on one assets directory *)

Next ==
    \/ StartText
    \/ StartPOS
    \/ Validate
    \/ Construct
    \/ TextStep
    \/ POSStep
    \/ Finish


\* metadata files as Article.save_raw leaves them, and one a POS run has rewritten
MetaSamples ==
    {[fmt |-> "save_raw",
      members |-> <<[key |-> "author", value |-> StrValue("Ann")],
                    [key |-> "title", value |-> StrValue("T")]>>],
     [fmt |-> "save_raw",
      members |-> <<[key |-> "title", value |-> StrValue("U")],
                    [key |-> "pos_frequencies",
                     value |-> MapValue(<<[key |-> <<"V">>, value |-> 2]>>)],
                    [key |-> "author", value |-> StrValue("Bob")]>>]}

\* the raw texts of the pipeline runs: an empty file, a word both analysers know,
\* a word Mystem does not know
RawSamples == {<<>>, <<"a">>, <<"z">>}

\* the functions from a subset of D to R
PartialFunctions(D, R) == UNION {[S -> R] : S \in SUBSET D}

ProcessIdle ==
    /\ pc = "idle"
    /\ entry = "none"
    /\ storage = <<>>
    /\ todo = <<>>
    /\ error = "none"
    /\ printed = <<>>
    /\ images = <<>>
    /\ config = NoConfig
    /\ cfgResult = NoResult

\* a directory as the scrapper may leave it: for some of the articles 1..MaxArticles
\* a raw text, for some a metadata file
Init ==
    /\ ProcessIdle
    /\ assets \in {"missing", "file", "dir"}
    /\ files \in PartialFunctions({RawName(id) : id \in 1..MaxArticles}, RawSamples)
    /\ metas \in PartialFunctions({MetaName(id) : id \in 1..MaxArticles}, MetaSamples)
    /\ assets # "dir" => files = <<>> /\ metas = <<>>

Spec == Init /\ [][Next]_vars

----------------------------------------------------------------------------
(* Validation and scanning of any small directory *)

\* the names a directory is drawn from
NameUniverse ==
    {ReadmeName} \cup
    UNION {{RawName(id), MetaName(id), BareRawName(id), BackupRawName(id),
            CleanedName(id)} : id \in 1..MaxId}

IsMetaName(name) == EndsWith(name, META_JSON)

InitDataset ==
    /\ ProcessIdle
    /\ assets = "dir"
    /\ \E names \in {S \in SUBSET NameUniverse : Cardinality(S) <= MaxFiles} :
        /\ files \in [{n \in names : ~IsMetaName(n)} -> {<<>>, <<"a">>}]
        /\ metas \in [{n \in names : IsMetaName(n)} -> {CHOOSE m \in MetaSamples : TRUE}]

NextDataset ==
    \/ StartText
    \/ StartPOS
    \/ Validate
    \/ Construct

SpecDataset == InitDataset /\ [][NextDataset]_vars

----------------------------------------------------------------------------
(* Text processing of any short raw text *)

RawAlphabet == Letters \cup {"-", "\n", " "}

TheMeta == CHOOSE m \in MetaSamples : m.members[1].key = "author"

InitText ==
    /\ ProcessIdle
    /\ assets = "dir"
    /\ \E raw_text \in SeqUpTo(RawAlphabet, MaxRawLen) :
        files = WriteFile(<<>>, RawName(1), raw_text)
    /\ metas = WriteFile(<<>>, MetaName(1), TheMeta)

SpecText == InitText /\ [][Next]_vars

----------------------------------------------------------------------------
(* POS frequencies of any short tagged artifact *)

TagAlphabet == {"<", "S", "V", "a"}

InitFreq ==
    /\ ProcessIdle
    /\ assets = "dir"
    /\ \E text \in SeqUpTo(TagAlphabet, MaxTagLen) :
        files = WriteFile(WriteFile(<<>>, RawName(1), <<"a">>), MultipleTaggedName(1), text)
    /\ metas = WriteFile(<<>>, MetaName(1), TheMeta)

SpecFreq == InitFreq /\ [][Next]_vars

----------------------------------------------------------------------------
(* Validation of any small configuration *)

SeedSamples == {JStr(<<"u", "1">>), JStr(<<"x">>), JInt(7)}

SeedUrlsSamples == {Absent, JStr(<<"u">>)} \cup {JList(l) : l \in SeqUpTo(SeedSamples, MaxSeeds)}

TotalSamples ==
    {Absent, JStr(<<"5">>), JFloat(2), JBool(TRUE), JBool(FALSE), JInt(0 - 1), JInt(0),
     JInt(1), JInt(MaxArticlesCeiling), JInt(MaxArticlesCeiling + 1)}

InitConfig ==
    /\ pc = "idle"
    /\ entry = "none"
    /\ storage = <<>>
    /\ todo = <<>>
    /\ error = "none"
    /\ printed = <<>>
    /\ images = <<>>
    /\ assets = "missing"
    /\ files = <<>>
    /\ metas = <<>>
    /\ cfgResult = NoResult
    /\ config \in [seed_urls : SeedUrlsSamples, total_articles_to_find_and_parse : TotalSamples]

NextConfig == ValidateConfig

SpecConfig == InitConfig /\ [][NextConfig]_vars

----------------------------------------------------------------------------
(* The claims *)

\* the number a name starts with, 0 when it starts with none
LeadingId(name) == ParseInt(SubSeq(name, 1, RunLen(name, Digits)))

HasLeadingId(name) == name # <<>> /\ Head(name) \in Digits

\* a raw-text file and a metadata file of the claims, by the suffix of the name
IsRawTextFile(name) == EndsWith(name, RAW_TXT_NO_UNDERSCORE)

IsMetadataFile(name) == EndsWith(name, META_JSON)

\* the conditions C1 gives for a directory to be valid
ClaimedValid ==
    /\ DirEntries # {}
    /\ \A name \in DirEntries : HasLeadingId(name)
    /\ \E N \in 1..Cardinality(DirEntries) :
        {LeadingId(name) : name \in DirEntries} = 1..N
    /\ Cardinality({name \in DirEntries : IsRawTextFile(name)})
         = Cardinality({name \in DirEntries : IsMetadataFile(name)})
    /\ \A name \in DirEntries : IsRawTextFile(name) => StSize(name) > 0

\* the run has ended in validate_dataset: nothing is registered yet (a run() that
\* fails has registered the article it fails on)
ValidationFailed == pc = "failed" /\ error \in ValidatorErrors /\ storage = <<>>

\* validate_dataset has just run on the directory of the state
JustValidated == pc = "construct" \/ ValidationFailed

\* C1: on a directory that exists, validate_dataset returns without error if and
\* only if the directory has an entry, every name starts with an integer, the
\* integers are exactly 1..N, there are as many raw-text files as metadata files
\* and no raw-text file is empty; otherwise it raises.
C1_ValidIffClaimed ==
    (JustValidated /\ assets = "dir") => ((pc = "construct") <=> ClaimedValid)

\* C10: once validate_dataset has succeeded, the ids CorpusManager registers are
\* exactly 1..N for some N >= 1, and every registered article has url None.
C10_RegisteredIdsDense ==
    pc = "run" =>
        /\ \E N \in 1..Cardinality(DOMAIN storage) : DOMAIN storage = 1..N
        /\ \A id \in DOMAIN storage : storage[id].url = "None"

\* the errors of the configuration taxonomy
ConfigErrors ==
    {"IncorrectURLError", "IncorrectNumberOfArticlesError", "NumberOfArticlesOutOfRangeError"}

\* the conditions C9 gives for a configuration to be valid
ClaimedValidConfig ==
    /\ config.seed_urls.t = "list"
    /\ config.seed_urls.l # <<>>
    /\ \A i \in DOMAIN config.seed_urls.l :
        /\ config.seed_urls.l[i].t = "str"
        /\ Contains(config.seed_urls.l[i].s, URL_PATTERN)
    /\ config.total_articles_to_find_and_parse.t = "int"
    /\ config.total_articles_to_find_and_parse.n > 0
    /\ config.total_articles_to_find_and_parse.n <= MaxArticlesCeiling

\* C9: validate_config returns (seed_urls, total_articles_to_find_and_parse) only
\* for a configuration with both fields, a non-empty list of matching seeds and a
\* positive integer count of at most 300; every other configuration makes it fail
\* with an error of the configuration taxonomy, and with no other error.
C9_ConfigErrorsOnly ==
    cfgResult.kind # "none" =>
        IF ClaimedValidConfig
        THEN /\ cfgResult.kind = "return"
             /\ cfgResult.seed_urls = config.seed_urls
             /\ cfgResult.max_articles = config.total_articles_to_find_and_parse
        ELSE cfgResult.kind = "raise" /\ cfgResult.error \in ConfigErrors

\* a step that changes the directory, registers articles or prints a line
DoesWork ==
    \/ files' # files
    \/ metas' # metas
    \/ images' # images
    \/ (storage' # storage /\ pc' # "validate")
    \/ (printed' # printed /\ pc' # "validate")

\* C2: in both entry points, when validate_dataset fails nothing is constructed,
\* run or written, and every step that registers articles, writes a file or
\* prints a line is taken in a run whose validation has succeeded.
C2_ValidationFirst ==
    [][/\ (pc = "validate" /\ validate_dataset # "ok") =>
              /\ pc' = "failed"
              /\ error' = validate_dataset
              /\ ~DoesWork
       /\ ValidationFailed => ~DoesWork
       /\ DoesWork => (pc \in {"construct", "run"} /\ validate_dataset = "ok")]_vars

\* a run of the POS entry point that validation has stopped on a directory with files
C2_Witness ==
    /\ entry = "pos"
    /\ ValidationFailed
    /\ error = "InconsistentDatasetError"
    /\ files # <<>>

\* every registered article has its three stage-1 artifacts
Stage1Complete ==
    \A id \in DOMAIN storage :
        {CleanedName(id), SingleTaggedName(id), MultipleTaggedName(id)} \subseteq DOMAIN files

\* a step of stage 2 that processes an article: it rewrites the metadata, draws
\* the image and prints the line of the article
Stage2Processes ==
    /\ entry = "pos"
    /\ pc = "run"
    /\ printed' = Append(printed, ArticleLine(storage[Head(todo)]))

\* C3 as stated: no step of stage 2 processes an article in a state where some
\* registered article lacks its stage-1 artifacts.
C3_Stage2AfterAllOfStage1 == [][Stage2Processes => Stage1Complete]_vars

\* C3 as amended: stage 2 processes an article only when the multiple_tagged
\* artifact of that article exists and is not empty, and a pass that finds the
\* artifact missing ends the run with FileNotFoundError and writes nothing.
C3_Stage2NeedsOwnArtifact ==
    [][(entry = "pos" /\ pc = "run" /\ todo # <<>>) =>
          LET artifact == MultipleTaggedName(Head(todo)) IN
          /\ (metas' # metas \/ images' # images \/ printed' # printed) =>
                 (artifact \in DOMAIN files /\ files[artifact] # <<>>)
          /\ artifact \notin DOMAIN files =>
                 /\ pc' = "failed"
                 /\ error' = "FileNotFoundError"
                 /\ UNCHANGED <<files, metas, images, printed>>]_vars

\* stage 2 has processed an article while another registered one has no artifacts
C3_Witness ==
    /\ entry = "pos"
    /\ Len(printed) = 1
    /\ printed[1].line = "article"
    /\ ~Stage1Complete

\* C6: a POS run that reaches an article whose multiple_tagged artifact is empty
\* fails with EmptyFileError before the metadata of the article is rewritten and
\* before its image is drawn; the run stops there, and what it wrote for earlier
\* articles stays.
C6_EmptyArtifactStops ==
    [][/\ (/\ entry = "pos" /\ pc = "run" /\ todo # <<>>
           /\ MultipleTaggedName(Head(todo)) \in DOMAIN files
           /\ files[MultipleTaggedName(Head(todo))] = <<>>) =>
              /\ pc' = "failed"
              /\ error' = "EmptyFileError"
              /\ UNCHANGED <<files, metas, images, printed, todo>>
       /\ (pc = "failed" /\ error = "EmptyFileError") =>
              /\ pc' = "validate"
              /\ UNCHANGED <<files, metas, images>>]_vars

\* a POS run has processed one article, with its metadata and image in place, and
\* has then failed on an empty artifact
C6_Witness ==
    /\ entry = "pos"
    /\ pc = "failed"
    /\ error = "EmptyFileError"
    /\ Len(printed) = 1
    /\ ImageName(printed[1].id) \in DOMAIN images
    /\ "pos_frequencies" \in Keys(metas[MetaName(printed[1].id)].members)
    /\ todo # <<>>
    /\ "pos_frequencies" \notin Keys(metas[MetaName(Head(todo))].members)

\* the items of a dict other than pos_frequencies, in order
OtherFields(dict) == SelectSeq(dict, LAMBDA item : item.key # "pos_frequencies")

\* C7: the metadata record POS run rewrites for an article has the fields it had,
\* with their values and order, plus pos_frequencies (added or overwritten); no
\* other metadata file changes; and a second pass over the same artifact leaves
\* every metadata file as the first pass left it.
C7_MetadataPreserved ==
    [][(entry = "pos" /\ pc = "run" /\ todo # <<>> /\ PosOutcome(storage[Head(todo)]) = "ok") =>
          LET name == MetaName(Head(todo))
              old == metas[name].members
              new == metas'[name].members
              pos_freq == PosFreq(files[MultipleTaggedName(Head(todo))])
          IN  /\ DOMAIN metas' = DOMAIN metas
              /\ \A other \in DOMAIN metas \ {name} : metas'[other] = metas[other]
              /\ OtherFields(new) = OtherFields(old)
              /\ Len(new) = Len(OtherFields(old)) + 1
              /\ DictGet(new, "pos_frequencies") = MapValue(pos_freq)
              /\ "pos_frequencies" \in Keys(old) =>
                     \A i \in DOMAIN old : new[i].key = old[i].key
              /\ (/\ metas[name].fmt = "dump"
                  /\ "pos_frequencies" \in Keys(old)
                  /\ DictGet(old, "pos_frequencies") = MapValue(pos_freq)) =>
                     metas' = metas]_vars

\* a finished POS run over two articles whose records had an earlier
\* pos_frequencies between other fields, and fields after it
C7_Witness ==
    /\ entry = "pos"
    /\ pc = "done"
    /\ Len(printed) = 3
    /\ \A name \in DOMAIN metas :
        /\ metas[name].fmt = "dump"
        /\ Len(metas[name].members) = 3
        /\ metas[name].members[2].key = "pos_frequencies"
        /\ metas[name].members[2].value.m # <<>>

\* the analysed tokens of the raw text of an article
AnalyzedTokens(id) == MystemAnalyze(Normalize(files[RawName(id)]))

\* the primary analyser gave the token no analysis, or one without lemma or tags
Unanalysed(token) ==
    \/ "analysis" \notin token.keys
    \/ token.analysis = <<>>
    \/ ~({"lex", "gr"} \subseteq token.analysis[1].keys)

\* the positions, in text order, of the tokens both analysers know
KeptPositions(tokens) ==
    Sorted({i \in DOMAIN tokens : ~Unanalysed(tokens[i]) /\ MorphParse(tokens[i].text) # <<>>})

\* the number of entries of a space-joined artifact whose entries hold no space
EntryCount(text) ==
    IF text = <<>> THEN 0 ELSE 1 + Cardinality({i \in DOMAIN text : text[i] = " "})

\* stage 1 has written the artifacts of the article
HasArtifacts(id) ==
    {RawName(id), CleanedName(id), SingleTaggedName(id), MultipleTaggedName(id)}
        \subseteq DOMAIN files

\* C4: a token the primary analyser does not analyse is in none of the three
\* artifacts; the cleaned, single_tagged and multiple_tagged artifacts of an
\* article have the same number of entries, in the order of the tokens, and no
\* more entries than there are tokens.
C4_DroppedFromAllArtifacts ==
    \A id \in 1..MaxArticles : HasArtifacts(id) =>
        LET tokens == AnalyzedTokens(id)
            kept == KeptPositions(tokens)
            lists == TokenLists(files[RawName(id)])
            lemma(k) == tokens[kept[k]].analysis[1].lex
        IN  /\ \A k \in DOMAIN kept : ~Unanalysed(tokens[kept[k]])
            /\ Len(lists.cleaned_tokens) = Len(kept)
            /\ Len(lists.single_tagged_tokens) = Len(kept)
            /\ Len(lists.multiple_tagged_tokens) = Len(kept)
            /\ Len(kept) <= Len(tokens)
            /\ \A k \in DOMAIN kept :
                /\ lists.cleaned_tokens[k] = LowerStr(tokens[kept[k]].text)
                /\ StartsWith(lists.single_tagged_tokens[k], lemma(k) \o <<"(">>)
                /\ StartsWith(lists.multiple_tagged_tokens[k], lemma(k) \o <<"<">>)
            /\ files[CleanedName(id)] = Join(lists.cleaned_tokens, <<" ">>)
            /\ EntryCount(files[CleanedName(id)]) = Len(kept)
            /\ EntryCount(files[SingleTaggedName(id)]) = Len(kept)
            /\ EntryCount(files[MultipleTaggedName(id)]) = Len(kept)

\* artifacts of one entry written from a text of three tokens, one of them a
\* word the primary analyser does not know
C4_Witness ==
    /\ HasArtifacts(1)
    /\ Len(AnalyzedTokens(1)) = 3
    /\ \E i \in 1..3 :
        /\ "analysis" \in AnalyzedTokens(1)[i].keys
        /\ AnalyzedTokens(1)[i].analysis = <<>>
    /\ EntryCount(files[MultipleTaggedName(1)]) = 1

\* the lemma, the primary tags (Mystem's, returned with the lemma) and the
\* secondary tags (pymorphy's) of the k-th kept token
LemmaOf(tokens, k) == tokens[KeptPositions(tokens)[k]].analysis[1].lex

PrimaryTags(tokens, k) == tokens[KeptPositions(tokens)[k]].analysis[1].gr

SecondaryTags(tokens, k) == MorphParse(tokens[KeptPositions(tokens)[k]].text)[1].tag

TagAt(text, i) == SubSeq(text, i + 1, i + RunLen(Drop(text, i + 1), Upper))

\* the positions of the '<' that an uppercase letter follows
TagStarts(text) ==
    {i \in DOMAIN text : text[i] = "<" /\ i < Len(text) /\ text[i + 1] \in Upper}

Occurrences(text, tag) == Cardinality({i \in TagStarts(text) : TagAt(text, i) = tag})

RECURSIVE SumValues(_)
SumValues(dict) == IF dict = <<>> THEN 0 ELSE Head(dict).value + SumValues(Tail(dict))

\* the articles the running POS run has processed
Processed == {printed[i].id : i \in {j \in DOMAIN printed : printed[j].line = "article"}}

\* C8: the mapping POS run computes from a multiple_tagged artifact gives every
\* tag (the uppercase letters right after a '<') the number of its occurrences:
\* a tag that does not occur is not a key, every count is at least 1 and the
\* counts add up to the number of '<TAG' of the artifact.
C8_FrequenciesAreCounts ==
    entry = "pos" =>
        \A id \in Processed :
            LET text == files[MultipleTaggedName(id)]
                pos_freq == DictGet(metas[MetaName(id)].members, "pos_frequencies").m
            IN  /\ \A i, j \in DOMAIN pos_freq : i # j => pos_freq[i].key # pos_freq[j].key
                /\ \A i \in DOMAIN pos_freq :
                    /\ pos_freq[i].value >= 1
                    /\ pos_freq[i].value = Occurrences(text, pos_freq[i].key)
                /\ \A i \in TagStarts(text) : TagAt(text, i) \in Keys(pos_freq)
                /\ SumValues(pos_freq) = Cardinality(TagStarts(text))
                /\ images[ImageName(id)] = pos_freq

\* two occurrences of one tag and one of another: {S: 2, V: 1}
C8_Witness ==
    /\ entry = "pos"
    /\ 1 \in Processed
    /\ files[MultipleTaggedName(1)] = <<"<", "S", "<", "V", "<", "S">>
    /\ DictGet(metas[MetaName(1)].members, "pos_frequencies").m
         = <<[key |-> <<"S">>, value |-> 2], [key |-> <<"V">>, value |-> 1]>>

====
